---- MODULE Spec2Model ----
(***************************************************************************)
(* Model of the ULD load planner of LoadCalc_CPP.cpp: the slot pool built  *)
(* in main, the ULD input loop, width resolution against the ULD catalog   *)
(* and the greedy placement loop with its report.                          *)
(*                                                                         *)
(* Strings that are matched by prefix (ULD ids, catalog prefixes) are      *)
(* sequences of one-character strings; doubles are exact rationals <<n,d>> *)
(* with d > 0.  A Slot* is the pair <<deck vector, position>>.             *)
(*                                                                         *)
(* Spec lets std::sort leave slots of equal index in any order, as the     *)
(* language allows; SpecStable is the program with the sort keeping them   *)
(* in place, as an insertion sort does.  Properties are proved under Spec; *)
(* failures are exhibited under SpecStable, whose runs are runs of Spec.   *)
(***************************************************************************)
EXTENDS Integers, Sequences, FiniteSets, TLC

VARIABLES
    pc,             \* where main is: "input", "place" or "done"
    ac,             \* Aircraft ac: per deck, slots and slotArms
    ulddb,          \* vector<ULDDBEntry> ulddb, the catalog
    nULDs,          \* int nULDs
    ulds,           \* vector<ULD> ulds
    slots,          \* the Slot objects of mainSlots and lowerSlots, by <<deck vector, position>>
    freeSlots,      \* vector<Slot*> freeSlots
    avgArm,         \* double avgArm
    currentWeight,  \* double currentWeight
    currentMoment,  \* double currentMoment
    report,         \* vector<pair<string, string>> report
    pos,            \* the number of ULDs the placement loop has processed
    resolved,       \* what getULDWidth returned in the last pass
    uWidth,         \* int uWidth of the last pass
    assigned        \* history: per processed ULD, the slots the pass wrote, its width
                    \* and the first slot of its window

vars == <<pc, ac, ulddb, nULDs, ulds, slots, freeSlots, avgArm,
          currentWeight, currentMoment, report, pos, resolved, uWidth, assigned>>

\* ---------------------------------------------------------------- bounds
MaxMain == 3
MaxLower == 1
MaxULDs == 2

\* ------------------------------------------------------ program constants
MainForeArm == 18
MainAftArm == 36
LowerForeArm == 12
LowerAftArm == 28
DefaultWidth == 1

\* -------------------------------------------------------------- rationals
RECURSIVE GCD(_, _)
GCD(a, b) == IF b = 0 THEN a ELSE GCD(b, a % b)

\* The rational n/d, d > 0, in lowest terms.
R(n, d) ==
    LET g == GCD(IF n < 0 THEN 0 - n ELSE n, d)
    IN  <<n \div g, d \div g>>
RAdd(a, b) == R(a[1] * b[2] + b[1] * a[2], a[2] * b[2])
RMul(a, b) == R(a[1] * b[1], a[2] * b[2])

\* ------------------------------------------------------------------ input
\* ULD ids typed at the prompt and the catalogs uld_db.json may hold.
IdLD3001 == <<"L", "D", "3", "0", "0", "1">>
IdAKE == <<"A", "K", "E">>
UldIds == {IdLD3001, IdAKE}
\* The weight typed for each id: an LD3001 of 250 kg, an AKE of 100 kg.
WeightOf(id) == IF id = IdLD3001 THEN 250 ELSE 100
UldTypes == {"MAIN", "LOWER", "ANY"}

Entry(p, w) == [prefix |-> p, widthSlots |-> w]
DbLdFirst == <<Entry(<<"L", "D">>, 2), Entry(<<"L", "D", "3">>, 1)>>
DbLd3First == <<Entry(<<"A", "K">>, 0), Entry(<<"L", "D", "3">>, 1), Entry(<<"L", "D">>, 2)>>
DbEmpty == <<>>
Catalogs == {DbLdFirst, DbLd3First, DbEmpty}

\* struct ULD
ULDs ==
    {[id |-> i, weight |-> WeightOf(i), type |-> t, allowSpecialSlots |-> a] :
        i \in UldIds, t \in UldTypes, a \in BOOLEAN}

\* ---------------------------------------------------------- width resolver
\* uldId.rfind(e.prefix, 0) == 0
IsPrefix(p, s) == Len(p) <= Len(s) /\ SubSeq(s, 1, Len(p)) = p

\* Mutant of getULDWidth: the last matching entry wins.
getULDWidthLastMatch(db, uldId) ==
    LET hits == {i \in 1..Len(db) : IsPrefix(db[i].prefix, uldId)}
    IN  IF hits = {} THEN DefaultWidth
        ELSE db[CHOOSE i \in hits : \A j \in hits : i >= j].widthSlots

\* int getULDWidth(db, uldId): the first entry, in order, whose prefix matches.
getULDWidth(db, uldId) ==
    LET hits == {i \in 1..Len(db) : IsPrefix(db[i].prefix, uldId)}
    IN  IF hits = {} THEN DefaultWidth
        ELSE db[CHOOSE i \in hits : \A j \in hits : i <= j].widthSlots

\* ------------------------------------------------------------- slot pool
\* vector<double> generateDefaultArms(n, foreArm, aftArm)
generateDefaultArms(n, foreArm, aftArm) ==
    IF n <= 0 THEN <<>>
    ELSE IF n = 1 THEN <<R(foreArm + aftArm, 2)>>
    ELSE [i \in 1..n |-> R(foreArm * ((n - 1) - (i - 1)) + aftArm * (i - 1), n - 1)]

\* struct Slot, default-constructed
DefaultSlot ==
    [deckName |-> "", index |-> 0, arm |-> R(0, 1), occupied |-> FALSE,
     occupantId |-> <<>>, occupantWeight |-> R(0, 1), slotType |-> "NORMAL"]

\* The elements of mainSlots and lowerSlots, by position.
SlotIds(a) ==
    {<<"main", i>> : i \in 0..(a.mainDeck.slots - 1)} \cup
    {<<"lower", i>> : i \in 0..(a.lowerDeck.slots - 1)}

\* freeSlots after the two push_back loops: main deck first, then lower deck.
AllSlotPtrs(a) ==
    [i \in 1..(a.mainDeck.slots + a.lowerDeck.slots) |->
        IF i <= a.mainDeck.slots THEN <<"main", i - 1>>
        ELSE <<"lower", i - 1 - a.mainDeck.slots>>]

\* The slot table assignSpecialSlots builds in its own local vectors for a deck
\* of n slots; main never calls it and nothing of it reaches the pool.
assignSpecialSlots(deckName, arms, n) ==
    [i \in 0..(n - 1) |->
        [DefaultSlot EXCEPT !.deckName = deckName, !.index = i, !.arm = arms[i + 1],
                            !.slotType = IF i < 1 THEN "NOSE"
                                         ELSE IF i >= n - 1 THEN "TAIL"
                                         ELSE "NORMAL"]]

\* A custom aircraft: slot counts typed in, arms regenerated when their number
\* differs from the slot count.
Aircraft(m, l) ==
    [mainDeck |-> [slots |-> m,
                   slotArms |-> IF 0 # m THEN generateDefaultArms(m, MainForeArm, MainAftArm) ELSE <<>>],
     lowerDeck |-> [slots |-> l,
                    slotArms |-> IF 0 # l THEN generateDefaultArms(l, LowerForeArm, LowerAftArm) ELSE <<>>]]

Init ==
    /\ pc = "input"
    /\ \E m \in 0..MaxMain, l \in 0..MaxLower : ac = Aircraft(m, l)
    /\ ulddb \in Catalogs
    /\ nULDs \in 0..MaxULDs
    /\ ulds = <<>>
    /\ slots = [s \in SlotIds(ac) |-> DefaultSlot]
    /\ freeSlots = AllSlotPtrs(ac)
    /\ avgArm = R(0, 1)
    /\ currentWeight = 0
    /\ currentMoment = R(0, 1)
    /\ report = <<>>
    /\ pos = 0
    /\ resolved = DefaultWidth
    /\ uWidth = DefaultWidth
    /\ assigned = <<>>

\* One pass of the input loop: a ULD is read and pushed.
ReadULD ==
    /\ pc = "input"
    /\ Len(ulds) < nULDs
    /\ \E u \in ULDs : ulds' = Append(ulds, u)
    /\ UNCHANGED <<pc, ac, ulddb, nULDs, slots, freeSlots, avgArm, currentWeight,
                   currentMoment, report, pos, resolved, uWidth, assigned>>

\* ------------------------------------------------------- placement engine
\* double avgArm: the mean of s->arm over freeSlots, left 0 when there are none.
RECURSIVE SumArms(_)
SumArms(fs) ==
    IF fs = <<>> THEN R(0, 1) ELSE RAdd(slots[Head(fs)].arm, SumArms(Tail(fs)))

MeanArm(fs) ==
    IF fs = <<>> THEN R(0, 1) ELSE RMul(SumArms(fs), R(1, Len(fs)))

\* The statements between the input loop and the placement loop.
ComputeAvgArm ==
    /\ pc = "input"
    /\ ~(Len(ulds) < nULDs)
    /\ avgArm' = MeanArm(freeSlots)
    /\ currentWeight' = 0
    /\ currentMoment' = R(0, 1)
    /\ report' = <<>>
    /\ pc' = "place"
    /\ UNCHANGED <<ac, ulddb, nULDs, ulds, slots, freeSlots, pos, resolved, uWidth, assigned>>

\* if (uWidth <= 0) uWidth = 1;
ClampWidth(w) == IF w <= 0 THEN 1 ELSE w

\* Mutant of DeckMatches: the comparisons == instead of !=.
DeckMatchesInverted(u, sl) ==
    ~ \/ (u.type = "MAIN" /\ sl.deckName = "main")
      \/ (u.type = "LOWER" /\ sl.deckName = "lower")

\* The deck test of the candidate filter, on the slot's own deckName.
DeckMatches(u, sl) ==
    ~ \/ (u.type = "MAIN" /\ sl.deckName # "main")
      \/ (u.type = "LOWER" /\ sl.deckName # "lower")

\* The nose/tail test of the candidate filter, on the slot's own slotType.
SpecialOk(u, sl) ==
    ~ (~u.allowSpecialSlots /\ (sl.slotType = "NOSE" \/ sl.slotType = "TAIL"))

Keep(u, s) == DeckMatches(u, slots[s]) /\ SpecialOk(u, slots[s])

\* Mutant of Candidates: the filter runs over every slot, free or not.
CandidatesOfAllSlots(u) == SelectSeq(AllSlotPtrs(ac), LAMBDA s : Keep(u, s))

\* vector<Slot*> candidates: the free slots that pass both tests, in freeSlots order.
Candidates(u) == SelectSeq(freeSlots, LAMBDA s : Keep(u, s))

Range(q) == {q[i] : i \in 1..Len(q)}

\* std::sort by a->index < b->index: any arrangement of the candidates in which
\* no slot precedes one of smaller index; the order of equal indices is unspecified.
RECURSIVE SortedOrders(_)
SortedOrders(S) ==
    IF S = {} THEN {<<>>}
    ELSE LET least == {x \in S : \A y \in S : slots[x].index <= slots[y].index}
         IN  UNION {{<<x>> \o rest : rest \in SortedOrders(S \ {x})} : x \in least}

\* Mutant of Consecutive: the index test is dropped.
ConsecutiveUnchecked(c, i, w) == TRUE

\* bool consecutive for the window of w candidates starting at c[i].
Consecutive(c, i, w) ==
    \A k \in 1..(w - 1) : slots[c[i + k]].index = slots[c[i + k - 1]].index + 1

\* The window starts the first-fit loop visits and accepts.
Starts(c, w) == {i \in 1..Len(c) : (i - 1) + w <= Len(c) /\ Consecutive(c, i, w)}

\* candidates[i]->deckName + "[" + to_string(candidates[i]->index + 1) + "]"
Label(sl) == sl.deckName \o "[" \o ToString(sl.index + 1) \o "]"

\* The writes to the w slots of the accepted window.
Occupy(sl, run, u, w) ==
    [s \in DOMAIN sl |->
        IF s \in run
        THEN [sl[s] EXCEPT !.occupied = TRUE, !.occupantId = u.id,
                           !.occupantWeight = R(u.weight, w)]
        ELSE sl[s]]

\* Mutant of ReportAfter: placed is never set, so a placed ULD is recorded
\* UNASSIGNED as well.
ReportAfterFlagLost(rep, u, placed, label) ==
    IF placed THEN Append(Append(rep, <<u.id, label>>), <<u.id, "UNASSIGNED">>)
    ELSE Append(rep, <<u.id, "UNASSIGNED">>)

\* report.emplace_back: one record per ULD, placed or not.
ReportAfter(rep, u, placed, label) ==
    IF placed THEN Append(rep, <<u.id, label>>) ELSE Append(rep, <<u.id, "UNASSIGNED">>)

\* Mutant of Cleanup: occupied slots stay in freeSlots.
CleanupNothing(fs, sl) == fs

\* freeSlots.erase(remove_if(... s->occupied ...))
Cleanup(fs, sl) == SelectSeq(fs, LAMBDA s : ~sl[s].occupied)

\* The first-fit loop over the sorted candidates c: the first accepted window,
\* its first slot and its w slots, or nothing when no window is accepted.
FirstFit(c, w) ==
    LET starts == Starts(c, w)
        i == CHOOSE a \in starts : \A b \in starts : a <= b
    IN  IF starts # {}
        THEN [placed |-> TRUE, first |-> c[i], run |-> {c[i + k] : k \in 0..(w - 1)}]
        ELSE [placed |-> FALSE, first |-> <<"none", 0>>, run |-> {}]

\* std::sort as an insertion sort performs it: slots of equal index keep their
\* order. It is one of SortedOrders, and the one a range this short is left in.
RECURSIVE StableSort(_)
StableSort(q) ==
    IF q = <<>> THEN <<>>
    ELSE LET x == Head(q)
             rest == StableSort(Tail(q))
         IN  SelectSeq(rest, LAMBDA y : slots[y].index < slots[x].index)
             \o <<x>>
             \o SelectSeq(rest, LAMBDA y : ~(slots[y].index < slots[x].index))

\* One pass of the placement loop, for the ULD at position pos + 1, with
\* orders the arrangements the sort may leave its candidates in.
PlacePass(orders) ==
    /\ pc = "place"
    /\ pos < Len(ulds)
    /\ LET u == ulds[pos + 1]
           raw == getULDWidth(ulddb, u.id)
           w == ClampWidth(raw)
       IN  \E fit \in {FirstFit(c, w) : c \in orders} :
             LET sl == Occupy(slots, fit.run, u, w)
             IN  /\ resolved' = raw
                 /\ uWidth' = w
                 /\ slots' = sl
                 /\ currentWeight' = IF fit.placed THEN currentWeight + u.weight
                                     ELSE currentWeight
                 /\ currentMoment' = IF fit.placed
                                     THEN RAdd(currentMoment,
                                               RMul(R(u.weight, 1), slots[fit.first].arm))
                                     ELSE currentMoment
                 /\ report' = ReportAfter(report, u, fit.placed,
                                          IF fit.placed THEN Label(slots[fit.first]) ELSE "")
                 /\ assigned' = Append(assigned,
                                       [slots |-> fit.run, width |-> w, first |-> fit.first])
                 /\ freeSlots' = Cleanup(freeSlots, sl)
    /\ pos' = pos + 1
    /\ UNCHANGED <<pc, ac, ulddb, nULDs, ulds, avgArm>>

\* The pass under every order std::sort is allowed to produce.
PlaceULD == PlacePass(SortedOrders(Range(Candidates(ulds[pos + 1]))))

\* The pass under the order an insertion sort produces.
PlaceULDStable == PlacePass({StableSort(Candidates(ulds[pos + 1]))})

\* The report and the deck printout: nothing of the plan changes any more.
PrintReport ==
    /\ pc = "place"
    /\ pos = Len(ulds)
    /\ pc' = "done"
    /\ UNCHANGED <<ac, ulddb, nULDs, ulds, slots, freeSlots, avgArm, currentWeight,
                   currentMoment, report, pos, resolved, uWidth, assigned>>

Next == ReadULD \/ ComputeAvgArm \/ PlaceULD \/ PrintReport

Spec == Init /\ [][Next]_vars

\* The program with std::sort keeping slots of equal index in place: every
\* behaviour of SpecStable is a behaviour of Spec.
NextStable == ReadULD \/ ComputeAvgArm \/ PlaceULDStable \/ PrintReport

SpecStable == Init /\ [][NextStable]_vars

\* ================================================================ claims
\* The deck a slot belongs to and its position on that deck, as the vectors
\* mainSlots and lowerSlots hold it.
DeckOf(s) == s[1]
IdxOf(s) == s[2]
DeckSize(d) == IF d = "main" THEN ac.mainDeck.slots ELSE ac.lowerDeck.slots
Decks == {"main", "lower"}
AdmittedDecks(type) ==
    IF type = "MAIN" THEN {"main"} ELSE IF type = "LOWER" THEN {"lower"} ELSE Decks
Processed == 1..Len(assigned)
PlacedUnits == {k \in Processed : assigned[k].slots # {}}
Owners(s) == {k \in Processed : s \in assigned[k].slots}

\* C1: every slot is free, or occupied by exactly one ULD of the input, whose
\* id it carries; and no occupied slot is left in freeSlots, from which alone
\* the loop selects slots for later ULDs.
C1_NoDoubleOccupancy ==
    /\ \A s \in DOMAIN slots :
         IF slots[s].occupied
         THEN /\ Cardinality(Owners(s)) = 1
              /\ \A k \in Owners(s) : slots[s].occupantId = ulds[k].id
         ELSE Owners(s) = {} /\ slots[s].occupantId = <<>>
    /\ \A i \in 1..Len(freeSlots) : ~slots[freeSlots[i]].occupied

\* C1 witness: a ULD was placed and a later ULD that any deck would admit was
\* turned away because every slot was already taken.
C1_Witness ==
    \E i, j \in Processed :
        /\ i < j
        /\ i \in PlacedUnits
        /\ j \notin PlacedUnits
        /\ ulds[j].type = "ANY"
        /\ assigned[j].width = 1
        /\ \A s \in DOMAIN slots : slots[s].occupied

\* C2: the slots of every placed ULD are exactly width many, lie on one deck
\* and have consecutive positions start..start+width-1 there; a ULD wider than
\* every deck its affinity admits is unassigned.
C2_ContiguousRun ==
    \A k \in Processed :
        LET a == assigned[k]
        IN  /\ k \in PlacedUnits =>
                /\ Cardinality(a.slots) = a.width
                /\ a.slots \subseteq DOMAIN slots
                /\ \E d \in Decks : \E start \in 0..(DeckSize(d) - 1) :
                       a.slots = {<<d, start + j>> : j \in 0..(a.width - 1)}
            /\ (\A d \in AdmittedDecks(ulds[k].type) : a.width > DeckSize(d)) =>
                   k \notin PlacedUnits

\* C2 witness: one ULD holds its single slot while a two-slot ULD, wider than
\* the non-empty deck it is admitted to, is unassigned.
C2_Witness ==
    \E i, j \in Processed :
        /\ i \in PlacedUnits
        /\ Cardinality(assigned[i].slots) = 1
        /\ assigned[j].width = 2
        /\ j \notin PlacedUnits
        /\ \E d \in AdmittedDecks(ulds[j].type) : DeckSize(d) = 1
        /\ \A d \in AdmittedDecks(ulds[j].type) : DeckSize(d) < 2

\* C4: a MAIN ULD holds no slot of the lower deck and a LOWER ULD no slot of
\* the main deck (an ANY ULD may hold slots of either: see the witness).
C4_DeckAffinity ==
    \A k \in Processed : \A s \in assigned[k].slots :
        /\ ulds[k].type = "MAIN" => DeckOf(s) # "lower"
        /\ ulds[k].type = "LOWER" => DeckOf(s) # "main"

\* C4 witness: one ANY ULD sits on the main deck and another on the lower deck.
C4_Witness ==
    \E i, j \in PlacedUnits :
        /\ ulds[i].type = "ANY"
        /\ ulds[j].type = "ANY"
        /\ \E s \in assigned[i].slots : DeckOf(s) = "main"
        /\ \E s \in assigned[j].slots : DeckOf(s) = "lower"

\* C4 witness of the affinity case: a MAIN ULD was processed while a slot of
\* the lower deck was free, and holds no slot.
C4_MainKeptOffLower ==
    \E k \in Processed :
        /\ ulds[k].type = "MAIN"
        /\ assigned[k].slots = {}
        /\ \E s \in DOMAIN slots : DeckOf(s) = "lower" /\ ~slots[s].occupied

\* p is a literal prefix of s: s is p followed by some rest.
LiteralPrefix(p, s) == \E n \in 0..Len(s) : p = SubSeq(s, 1, n)

\* C6: the width resolved for the ULD just processed is the declared width of
\* the first catalog entry, in catalog order, whose prefix is a literal prefix
\* of its id, and 1 when no entry matches; under [("LD",2),("LD3",1)] the id
\* LD3001 resolves to 2.
C6_FirstMatchWidth ==
    pos > 0 =>
        LET id == ulds[pos].id
            Match(j) == LiteralPrefix(ulddb[j].prefix, id)
        IN  /\ \/ \E j \in 1..Len(ulddb) :
                     /\ Match(j)
                     /\ \A i \in 1..(j - 1) : ~Match(i)
                     /\ resolved = ulddb[j].widthSlots
               \/ /\ \A j \in 1..Len(ulddb) : ~Match(j)
                  /\ resolved = 1
            /\ (ulddb = DbLdFirst /\ id = IdLD3001) => resolved = 2

\* C6 witness: LD3001 has been resolved under the catalog [("LD",2),("LD3",1)],
\* both of whose prefixes match it.
C6_Witness ==
    /\ pos > 0
    /\ ulddb = DbLdFirst
    /\ ulds[pos].id = IdLD3001
    /\ LiteralPrefix(ulddb[1].prefix, ulds[pos].id)
    /\ LiteralPrefix(ulddb[2].prefix, ulds[pos].id)
    /\ resolved = 2

\* C6 witness of the default: a ULD no entry matches, and one under the empty
\* catalog, resolve to 1.
C6_DefaultWitness ==
    /\ pos > 0
    /\ \A j \in 1..Len(ulddb) : ~LiteralPrefix(ulddb[j].prefix, ulds[pos].id)
    /\ resolved = 1

\* C7: no step changes an occupied slot: its occupant, weight share and
\* occupancy stay as committed whatever ULD is processed later.
C7_PlacementFinal ==
    [][\A s \in DOMAIN slots : slots[s].occupied => slots'[s] = slots[s]]_vars

\* C7 witness: after a second, different ULD was placed, the slots of the first
\* still carry the first ULD's id and its weight share weight/width.
C7_Witness ==
    /\ pos >= 2
    /\ 1 \in PlacedUnits
    /\ 2 \in PlacedUnits
    /\ ulds[1].id # ulds[2].id
    /\ ulds[1].weight # ulds[2].weight
    /\ \A s \in assigned[1].slots :
           /\ slots[s].occupied
           /\ slots[s].occupantId = ulds[1].id
           /\ slots[s].occupantWeight = R(ulds[1].weight, assigned[1].width)

\* The slot assignSpecialSlots describes for pool slot s: its deck name, its
\* index, its arm from the deck's slotArms, and nose/tail at the deck's ends.
IntendedSlot(s) ==
    LET deck == IF DeckOf(s) = "main" THEN ac.mainDeck ELSE ac.lowerDeck
    IN  assignSpecialSlots(DeckOf(s), deck.slotArms, deck.slots)[IdxOf(s)]
ArmOf(s) == IntendedSlot(s).arm
Restricted(s) == IntendedSlot(s).slotType \in {"NOSE", "TAIL"}

\* The runs of w free slots with consecutive positions on one deck that u's
\* affinity admits, all NORMAL when u disallows nose/tail slots; <<deck, start>>.
RunSlots(r, w) == {<<r[1], r[2] + j>> : j \in 0..(w - 1)}
ValidRuns(u, w) ==
    {r \in UNION {{<<d, st>> : st \in 0..(DeckSize(d) - w)} : d \in AdmittedDecks(u.type)} :
        \A s \in RunSlots(r, w) :
            /\ ~slots[s].occupied
            /\ ~u.allowSpecialSlots => slots[s].slotType = "NORMAL"}

\* C3 (as claimed): the ULD processed by a step is placed exactly when a valid
\* run of its width existed when the step began.
C3_PlacedIffRunExists ==
    [][pos' = pos + 1 =>
          ((report'[pos'][2] # "UNASSIGNED") <=> (ValidRuns(ulds[pos + 1], uWidth') # {}))]_vars

\* C5 (as claimed): a ULD that disallows restricted slots holds no first or
\* last slot of a deck; alone on a single deck of at least three slots, with
\* width 1, it is placed strictly between the two ends.
C5_NoRestrictedSlot ==
    /\ \A k \in PlacedUnits : ~ulds[k].allowSpecialSlots =>
           \A s \in assigned[k].slots : ~Restricted(s)
    /\ \A d \in Decks :
           ( /\ DeckSize(d) >= 3
             /\ \A e \in Decks \ {d} : DeckSize(e) = 0
             /\ pos >= 1
             /\ ~ulds[1].allowSpecialSlots
             /\ d \in AdmittedDecks(ulds[1].type)
             /\ assigned[1].width = 1 )
           => \E i \in 1..(DeckSize(d) - 2) : assigned[1].slots = {<<d, i>>}

\* C8 (as claimed): after pos ULDs the report holds pos records, the i-th with
\* the i-th ULD's id and its outcome: UNASSIGNED, or the deck and the starting
\* index of its run.
C8_LedgerInOrder ==
    /\ Len(report) = pos
    /\ \A i \in 1..Len(report) :
           /\ report[i][1] = ulds[i].id
           /\ report[i][2] = IF i \in PlacedUnits
                             THEN Label(IntendedSlot(assigned[i].first))
                             ELSE "UNASSIGNED"

\* The sum of f[s] over the slots s of S.
RECURSIVE SumOver(_, _)
SumOver(S, f) ==
    IF S = {} THEN R(0, 1)
    ELSE LET s == CHOOSE x \in S : TRUE IN RAdd(f[s], SumOver(S \ {s}, f))
RSub(a, b) == R(a[1] * b[2] - b[1] * a[2], a[2] * b[2])
RAbs(a) == IF a[1] < 0 THEN <<0 - a[1], a[2]>> ELSE a
RLe(a, b) == a[1] * b[2] <= b[1] * a[2]
REq(a, b) == a[1] * b[2] = b[1] * a[2]

\* The target arm: the unweighted mean arm of all slots.
TargetArm ==
    RMul(SumOver(DOMAIN slots, [s \in DOMAIN slots |-> ArmOf(s)]),
         R(1, Cardinality(DOMAIN slots)))
\* The moment of the load so far: every occupied slot's weight share at its arm.
SlotMoment(s) ==
    IF slots[s].occupied THEN RMul(slots[s].occupantWeight, ArmOf(s)) ELSE R(0, 1)
ShareMoment(u, w, S) ==
    SumOver(S, [s \in S |-> RMul(R(u.weight, w), ArmOf(s))])
\* The deviation from the target of the weighted mean arm that results from
\* putting u, spread evenly, on the slots S.
Deviation(u, w, S) ==
    RAbs(RSub(RMul(RAdd(SumOver(DOMAIN slots, [s \in DOMAIN slots |-> SlotMoment(s)]),
                        ShareMoment(u, w, S)),
                   R(1, currentWeight + u.weight)),
              TargetArm))

\* C9 (as claimed): the run a step commits has the least deviation among the
\* valid runs, and the lowest starting index among those of equal deviation.
C9_MinDeviationRun ==
    [][(pos' = pos + 1 /\ assigned'[pos'].slots # {}) =>
          LET u == ulds[pos + 1]
              w == uWidth'
              chosen == assigned'[pos']
          IN  \A r \in ValidRuns(u, w) :
                  /\ RLe(Deviation(u, w, chosen.slots), Deviation(u, w, RunSlots(r, w)))
                  /\ REq(Deviation(u, w, chosen.slots), Deviation(u, w, RunSlots(r, w)))
                         => IdxOf(chosen.first) <= r[2]]_vars

\* C10 (as claimed): on every non-empty deck the first slot of the pool is
\* the one fore-restricted slot and the last slot the one aft-restricted slot,
\* and no slot is occupied before the first ULD is processed.
C10_EndsRestricted ==
    /\ \A d \in Decks : DeckSize(d) >= 1 =>
           /\ slots[<<d, 0>>].slotType = "NOSE"
           /\ slots[<<d, DeckSize(d) - 1>>].slotType = "TAIL"
           /\ Cardinality({s \in DOMAIN slots : DeckOf(s) = d /\ slots[s].slotType = "NOSE"}) = 1
           /\ Cardinality({s \in DOMAIN slots : DeckOf(s) = d /\ slots[s].slotType = "TAIL"}) = 1
    /\ pos = 0 => \A s \in DOMAIN slots : ~slots[s].occupied

\* C11: a pass that records its ULD UNASSIGNED appends that one record and
\* changes nothing else of the plan: every slot (occupancy, occupant, weight
\* share), freeSlots, currentWeight and currentMoment stay as they were; and
\* the loop goes on: main is still in the placement loop, one ULD further.
C11_UnassignedChangesNothing ==
    [][(pos' = pos + 1 /\ report'[Len(report')][2] = "UNASSIGNED") =>
          /\ report' = Append(report, <<ulds[pos + 1].id, "UNASSIGNED">>)
          /\ slots' = slots
          /\ freeSlots' = freeSlots
          /\ currentWeight' = currentWeight
          /\ currentMoment' = currentMoment
          /\ pc' = "place"
          /\ ulds' = ulds]_vars

\* C11 witness: a ULD was recorded UNASSIGNED while a slot was free, and the
\* ULD after it was processed and placed on a slot.
C11_Witness ==
    \E i \in Processed :
        /\ report[i][2] = "UNASSIGNED"
        /\ assigned[i].slots = {}
        /\ i + 1 \in PlacedUnits
        /\ report[i + 1][2] # "UNASSIGNED"
        /\ currentWeight = ulds[i + 1].weight
====
